---- MODULE Spec2Model ----
(***************************************************************************)
(* Eller's maze generation (ellers_rs, src/src/maze.rs).                   *)
(*                                                                         *)
(* The engine (MazeBuilder) is modelled as a record m with the fields of   *)
(* the Rust struct; every method is an operator from records to records,   *)
(* computed in the order the code computes it, and every public method is  *)
(* one action.  Rust's 0-based Vec `row` is a function on 0..len-1, the    *)
(* two HashMaps are functions whose DOMAIN is the key set.  Each call of   *)
(* random() is an input coin.                                              *)
(***************************************************************************)
EXTENDS Integers, Sequences, FiniteSets, TLC

\* Bounds of the exploration.
MaxWidth == 3
MaxCalls == 2
MergeLabels == 2
ScenarioWidth == 5

VARIABLES
    sets,       \* MazeBuilder.sets : set id -> set of labels
    cells,      \* MazeBuilder.cells: label -> Cell
    width,      \* MazeBuilder.width
    set_cnt,    \* MazeBuilder.set_cnt
    label_cnt,  \* MazeBuilder.label_cnt
    row,        \* MazeBuilder.row (0-based)
    iterations, \* MazeBuilder.iterations
    failed,     \* the process aborted in an unwrap() on None
    ops,        \* the public calls made so far, in order
    emitted,    \* the rows as published after each call (walls per column)
    vlog,       \* per boundary of the last vertical pass of ellers: what was decided
    peak,       \* the largest number of live cells during the last call
    mlog        \* a direct merge_sets call: <<[from, to, before]>>, before = the engine it got

vars == <<sets, cells, width, set_cnt, label_cnt, row, iterations, failed, ops, emitted,
          vlog, peak, mlog>>

Left == "Left"
Right == "Right"
Top == "Top"
Bottom == "Bottom"
Wall == {Left, Right, Top, Bottom}

\* Cell::new
NewCell(label, set_id) == [walls |-> {}, label |-> label, set_id |-> set_id]

\* HashMap::insert and HashMap::remove
Put(f, k, v) == [x \in (DOMAIN f) \cup {k} |-> IF x = k THEN v ELSE f[x]]
Del(f, k) == [x \in (DOMAIN f) \ {k} |-> f[x]]

EmptyMap == [x \in {} |-> 0]

\* row.len()
RowLen(r) == Cardinality(DOMAIN r)

\* The engine as a value.
Engine == [sets |-> sets, cells |-> cells, width |-> width, set_cnt |-> set_cnt,
           label_cnt |-> label_cnt, row |-> row, iterations |-> iterations,
           failed |-> failed]

AddWall(m, label, w) ==
    IF label \in DOMAIN m.cells
    THEN [m EXCEPT !.cells[label].walls = @ \cup {w}]
    ELSE m

RemoveWall(m, label, w) ==
    IF label \in DOMAIN m.cells
    THEN [m EXCEPT !.cells[label].walls = @ \ {w}]
    ELSE m

(***************************************************************************)
(* merge_sets                                                              *)
(***************************************************************************)
\* Variant: `to` is overwritten with the members of `from`, not the union.
merge_sets_overwrite(m, from, to) ==
    LET hasFrom == from \in DOMAIN m.sets
        from_set == IF hasFrom THEN m.sets[from] ELSE {}
        cells1 == [l \in DOMAIN m.cells |->
                     IF l \in from_set
                     THEN [m.cells[l] EXCEPT !.set_id = to]
                     ELSE m.cells[l]]
        removed == Del(m.sets, from)
        sets1 == IF ~hasFrom THEN m.sets
                 ELSE IF to \in DOMAIN removed
                      THEN [removed EXCEPT ![to] = from_set]
                      ELSE removed
    IN [m EXCEPT !.cells = cells1, !.sets = sets1]

merge_sets(m, from, to) ==
    LET hasFrom == from \in DOMAIN m.sets
        from_set == IF hasFrom THEN m.sets[from] ELSE {}
        cells1 == [l \in DOMAIN m.cells |->
                     IF l \in from_set
                     THEN [m.cells[l] EXCEPT !.set_id = to]
                     ELSE m.cells[l]]
        removed == Del(m.sets, from)
        sets1 == IF ~hasFrom THEN m.sets
                 ELSE IF to \in DOMAIN removed
                      THEN [removed EXCEPT ![to] = from_set \cup removed[to]]
                      ELSE removed
    IN [m EXCEPT !.cells = cells1, !.sets = sets1]

(***************************************************************************)
(* ellers: carry-down (the first loop)                                     *)
(***************************************************************************)
\* Variant: the new row loses its last column (when it has more than one).
carried_row_short(m0) ==
    [i \in (IF RowLen(m0.row) <= 1 THEN DOMAIN m0.row
            ELSE 0 .. (RowLen(m0.row) - 2)) |-> m0.label_cnt + i]

\* new_row after the loop: column i holds the label allocated for it.
carried_row(m0) == [i \in DOMAIN m0.row |-> m0.label_cnt + i]

\* Variant: a cell under a Bottom wall gets its Top wall but stays in the
\* inherited set.
carry_cell_inherit(m, old, i) ==
    IF old[i] \notin DOMAIN m.cells
    THEN [m EXCEPT !.failed = TRUE]
    ELSE
    LET lbl == m.label_cnt
        above == m.cells[old[i]]
        inherited == above.set_id
        sets1 == Put(m.sets, inherited,
                     (IF inherited \in DOMAIN m.sets THEN m.sets[inherited] ELSE {})
                        \cup {lbl})
        stripped == above.walls \ {Top, Right, Left}
    IN [m EXCEPT
          !.cells = Put(m.cells, lbl,
                        [walls |-> IF Bottom \in stripped
                                   THEN (stripped \ {Bottom}) \cup {Top}
                                   ELSE stripped,
                         label |-> lbl, set_id |-> inherited]),
          !.sets = sets1,
          !.label_cnt = lbl + 1]

\* One iteration of the loop, for column i; old is the superseded row.
carry_cell(m, old, i) ==
    IF old[i] \notin DOMAIN m.cells
    THEN [m EXCEPT !.failed = TRUE]
    ELSE
    LET lbl == m.label_cnt
        above == m.cells[old[i]]
        inherited == above.set_id
        sets1 == Put(m.sets, inherited,
                     (IF inherited \in DOMAIN m.sets THEN m.sets[inherited] ELSE {})
                        \cup {lbl})
        stripped == above.walls \ {Top, Right, Left}
    IN IF Bottom \in stripped
       THEN LET sets2 == [sets1 EXCEPT ![inherited] = @ \ {lbl}]
                fresh == m.set_cnt
                sets3 == Put(sets2, fresh,
                             (IF fresh \in DOMAIN sets2 THEN sets2[fresh] ELSE {})
                                \cup {lbl})
            IN [m EXCEPT
                  !.cells = Put(m.cells, lbl,
                                [walls |-> (stripped \ {Bottom}) \cup {Top},
                                 label |-> lbl, set_id |-> fresh]),
                  !.sets = sets3,
                  !.set_cnt = fresh + 1,
                  !.label_cnt = lbl + 1]
       ELSE [m EXCEPT
                  !.cells = Put(m.cells, lbl,
                                [walls |-> stripped, label |-> lbl,
                                 set_id |-> inherited]),
                  !.sets = sets1,
                  !.label_cnt = lbl + 1]

RECURSIVE carry_from(_, _, _)
carry_from(m, old, i) ==
    IF i >= RowLen(old) \/ m.failed THEN m
    ELSE carry_from(carry_cell(m, old, i), old, i + 1)

carry_down(m) == carry_from(m, m.row, 0)

(***************************************************************************)
(* ellers: vertical pass (the peekable loop)                               *)
(***************************************************************************)
\* Variant: the coin alone decides, also between cells of one set.
wall_decision_coin(same, coin) == coin

\* The branch taken for a cell: TRUE adds the Right wall, FALSE merges.
wall_decision(same, coin) == same \/ coin

\* One iteration, for column i of new_row; s = [m, log].  The log gets an
\* entry for every boundary (every column that has a right neighbour).
vertical_cell(s, new_row, coins, i) ==
    LET m == s.m
        hasNext == i + 1 < RowLen(new_row)
        label == new_row[i]
        next_label == IF hasNext THEN new_row[i + 1] ELSE 0
        next_set == IF hasNext /\ next_label \in DOMAIN m.cells
                    THEN m.cells[next_label].set_id ELSE 0
        hasCell == label \in DOMAIN m.cells
        same == hasCell /\ next_set # 0 /\ next_set = m.cells[label].set_id
        addWall == hasCell /\ wall_decision(same, coins[i])
        merge == hasCell /\ ~addWall
        m1 == IF addWall THEN AddWall(m, label, Right) ELSE m
        current_set_id == IF hasCell THEN m1.cells[label].set_id ELSE 0
        m2 == IF hasNext /\ addWall THEN AddWall(m1, next_label, Left) ELSE m1
        doMerge == hasNext /\ merge /\ current_set_id # 0
        noNext == doMerge /\ next_label \notin DOMAIN m2.cells
        m3 == IF ~doMerge THEN m2
              ELSE IF noNext THEN [m2 EXCEPT !.failed = TRUE]
              ELSE merge_sets(m2, m2.cells[next_label].set_id, current_set_id)
        entry == [col |-> i, same |-> same,
                  merged |-> doMerge /\ ~noNext,
                  from |-> IF doMerge /\ ~noNext
                           THEN m2.cells[next_label].set_id ELSE 0,
                  to |-> current_set_id]
    IN [m |-> m3, log |-> IF hasNext THEN Append(s.log, entry) ELSE s.log]

RECURSIVE vertical_from(_, _, _, _)
vertical_from(s, new_row, coins, i) ==
    IF i >= RowLen(new_row) \/ s.m.failed THEN s
    ELSE vertical_from(vertical_cell(s, new_row, coins, i), new_row, coins, i + 1)

vertical_pass(m, new_row, coins) ==
    vertical_from([m |-> m, log |-> <<>>], new_row, coins, 0)

\* Variant: only the left edge is forced.
force_edges_left(m, new_row) == AddWall(m, new_row[0], Left)

\* "Make sure outside edges have walls."
force_edges(m, new_row) ==
    AddWall(AddWall(m, new_row[0], Left), new_row[RowLen(new_row) - 1], Right)

(***************************************************************************)
(* ellers: retiring the superseded row                                     *)
(***************************************************************************)
\* Variant: the label leaves its set's member list but stays in the Cell
\* mapping.
retire_cell_keep(m, i) ==
    LET set_id == IF i \in DOMAIN m.cells THEN m.cells[i].set_id ELSE 0
    IN IF set_id # 0 /\ set_id \in DOMAIN m.sets
       THEN [m EXCEPT !.sets[set_id] = @ \ {i}]
       ELSE m

\* Variant: the cell is removed but its label stays in the member list.
retire_cell_unpruned(m, i) == [m EXCEPT !.cells = Del(m.cells, i)]

retire_cell(m, i) ==
    LET set_id == IF i \in DOMAIN m.cells THEN m.cells[i].set_id ELSE 0
        m1 == [m EXCEPT !.cells = Del(m.cells, i)]
    IN IF set_id # 0 /\ set_id \in DOMAIN m1.sets
       THEN [m1 EXCEPT !.sets[set_id] = @ \ {i}]
       ELSE m1

RECURSIVE retire_from(_, _, _)
retire_from(m, old, k) ==
    IF k >= RowLen(old) THEN m
    ELSE retire_from(retire_cell(m, old[k]), old, k + 1)

retire_row(m) == retire_from(m, m.row, 0)

(***************************************************************************)
(* generate_bottom_walls                                                   *)
(***************************************************************************)
\* The columns both loops visit: 1..width-1 exclusive of the end.
Interior(w) == 1 .. (w - 2)

\* Variant: the coin of column x walls the column to its left.
RECURSIVE candidate_from_shifted(_, _, _)
candidate_from_shifted(m, coins, x) ==
    IF x > m.width - 2 THEN m
    ELSE candidate_from_shifted(
             IF coins[x] THEN AddWall(m, m.row[x - 1], Bottom) ELSE m, coins, x + 1)

\* First loop: a coin per interior column; TRUE adds the Bottom wall.
RECURSIVE candidate_from(_, _, _)
candidate_from(m, coins, x) ==
    IF x > m.width - 2 THEN m
    ELSE candidate_from(
             IF coins[x] THEN AddWall(m, m.row[x], Bottom) ELSE m, coins, x + 1)

\* Variant: no corrective step.
correct_bottom_skip(m, label) == m

\* What the corrective step does with a set that has no down passage.
correct_bottom(m, label) == RemoveWall(m, label, Bottom)

\* Second loop, column x.  The member loop runs in the HashSet's iteration
\* order and stops at the first member without a Bottom wall; a member that
\* is not in the Cell mapping aborts it (unwrap).  The result is the set of
\* outcomes the iteration orders can produce.
check_cell(m, x) ==
    LET label == m.row[x]
    IN IF label \notin DOMAIN m.cells THEN {[m EXCEPT !.failed = TRUE]}
       ELSE
       LET set_label == m.cells[label].set_id
       IN IF set_label \notin DOMAIN m.sets THEN {m}
          ELSE
          LET members == m.sets[set_label]
              missing == members \ DOMAIN m.cells
              has_down_passage ==
                  \E c \in members \cap DOMAIN m.cells : Bottom \notin m.cells[c].walls
              done == IF has_down_passage THEN m ELSE correct_bottom(m, label)
          IN IF missing = {} THEN {done}
             ELSE IF has_down_passage THEN {m, [m EXCEPT !.failed = TRUE]}
             ELSE {[m EXCEPT !.failed = TRUE]}

RECURSIVE check_from(_, _, _)
check_from(S, w, x) ==
    IF x > w - 2 THEN S
    ELSE check_from(UNION {IF m.failed THEN {m} ELSE check_cell(m, x) : m \in S},
                    w, x + 1)

generate_bottom_walls(m, coins) ==
    check_from({candidate_from(m, coins, 1)}, m.width, 1)

(***************************************************************************)
(* init_vertical_walls                                                     *)
(***************************************************************************)
\* Variant: an open boundary leaves the right cell in its own set.
init_boundary_no_join(m, coin, x) ==
    IF coin
    THEN AddWall(AddWall(m, m.row[x], Right), m.row[x + 1], Left)
    ELSE m

\* Variant: a walled boundary gets the Right wall only.
init_boundary_right_only(m, coin, x) ==
    LET l1 == m.row[x]
        l2 == m.row[x + 1]
    IN IF coin
       THEN AddWall(m, l1, Right)
       ELSE LET target_set == m.cells[l1].set_id
                m1 == [m EXCEPT !.cells[l2].set_id = target_set]
                m2 == IF target_set \in DOMAIN m1.sets
                      THEN [m1 EXCEPT !.sets[target_set] = @ \cup {l2}]
                      ELSE m1
                previous == m2.cells[l2].set_id
            IN IF previous \in DOMAIN m2.sets
               THEN [m2 EXCEPT !.sets[previous] = @ \ {l2}]
               ELSE m2

\* One boundary x: coin TRUE walls it; coin FALSE moves row[x+1] into the
\* set of row[x].  The set the label is removed from is looked up through
\* the cell after its set_id has been overwritten.
init_boundary(m, coin, x) ==
    LET l1 == m.row[x]
        l2 == m.row[x + 1]
    IN IF coin
       THEN AddWall(AddWall(m, l1, Right), l2, Left)
       ELSE LET target_set == m.cells[l1].set_id
                m1 == [m EXCEPT !.cells[l2].set_id = target_set]
                m2 == IF target_set \in DOMAIN m1.sets
                      THEN [m1 EXCEPT !.sets[target_set] = @ \cup {l2}]
                      ELSE m1
                previous == m2.cells[l2].set_id
            IN IF previous \in DOMAIN m2.sets
               THEN [m2 EXCEPT !.sets[previous] = @ \ {l2}]
               ELSE m2

RECURSIVE init_vertical_from(_, _, _)
init_vertical_from(m, coins, x) ==
    IF x > m.width - 2 THEN m
    ELSE init_vertical_from(init_boundary(m, coins[x], x), coins, x + 1)

init_vertical_walls(m, coins) == init_vertical_from(m, coins, 0)

(***************************************************************************)
(* new                                                                     *)
(***************************************************************************)
\* Variant: the set counter starts above width * iterations.
blank_high(w, it) == [sets |-> EmptyMap, cells |-> EmptyMap, width |-> w,
                      set_cnt |-> w * it + 1, label_cnt |-> 0, row |-> EmptyMap,
                      iterations |-> it, failed |-> FALSE]

\* The struct literal.
blank(w, it) == [sets |-> EmptyMap, cells |-> EmptyMap, width |-> w, set_cnt |-> 1,
                 label_cnt |-> 0, row |-> EmptyMap, iterations |-> it,
                 failed |-> FALSE]

\* Variant: the cells are created without a Top wall.
RECURSIVE first_row_no_top(_)
first_row_no_top(m) ==
    IF ~(m.label_cnt < m.width) THEN m
    ELSE first_row_no_top([m EXCEPT
            !.cells = Put(m.cells, m.label_cnt, NewCell(m.label_cnt, m.set_cnt)),
            !.row = Put(m.row, m.label_cnt, m.label_cnt),
            !.sets = Put(m.sets, m.set_cnt,
                         (IF m.set_cnt \in DOMAIN m.sets THEN m.sets[m.set_cnt] ELSE {})
                            \cup {m.label_cnt}),
            !.label_cnt = m.label_cnt + 1,
            !.set_cnt = m.set_cnt + 1])

\* Variant: the set counter does not advance, every cell joins set 1.
RECURSIVE first_row_one_set(_)
first_row_one_set(m) ==
    IF ~(m.label_cnt < m.width) THEN m
    ELSE first_row_one_set([m EXCEPT
            !.cells = Put(m.cells, m.label_cnt,
                          [NewCell(m.label_cnt, m.set_cnt) EXCEPT !.walls = {Top}]),
            !.row = Put(m.row, m.label_cnt, m.label_cnt),
            !.sets = Put(m.sets, m.set_cnt,
                         (IF m.set_cnt \in DOMAIN m.sets THEN m.sets[m.set_cnt] ELSE {})
                            \cup {m.label_cnt}),
            !.label_cnt = m.label_cnt + 1])

\* The while loop: one cell, in its own set, with a Top wall.
RECURSIVE first_row(_)
first_row(m) ==
    IF ~(m.label_cnt < m.width) THEN m
    ELSE first_row([m EXCEPT
            !.cells = Put(m.cells, m.label_cnt,
                          [NewCell(m.label_cnt, m.set_cnt) EXCEPT !.walls = {Top}]),
            !.row = Put(m.row, m.label_cnt, m.label_cnt),
            !.sets = Put(m.sets, m.set_cnt,
                         (IF m.set_cnt \in DOMAIN m.sets THEN m.sets[m.set_cnt] ELSE {})
                            \cup {m.label_cnt}),
            !.label_cnt = m.label_cnt + 1,
            !.set_cnt = m.set_cnt + 1])

\* cells.get_mut(&0).unwrap() and cells.get_mut(&(width - 1)).unwrap()
outer_walls(m) == AddWall(AddWall(m, 0, Left), m.width - 1, Right)

\* The set of engines the call can return (one, unless an iteration order
\* decides between finishing and aborting).
new(w, it, vcoins, bcoins) ==
    LET m1 == first_row(blank(w, it))
    IN IF 0 \notin DOMAIN m1.cells
       THEN {[m1 EXCEPT !.failed = TRUE]}
       ELSE generate_bottom_walls(init_vertical_walls(outer_walls(m1), vcoins),
                                  bcoins)

(***************************************************************************)
(* ellers                                                                  *)
(***************************************************************************)
\* The number of live cells.
Live(m) == Cardinality(DOMAIN m.cells)

Largest(S) == CHOOSE n \in S : \A k \in S : k <= n

\* The call up to `self.row = new_row`: [m, log, peak], the engine, the
\* vertical pass's log and the largest Cell mapping the call has held (the
\* mapping only grows in the carry-down and only shrinks in the retire loop).
ellers_rows(m, vcoins) ==
    LET new_row == carried_row(m)
        m1 == carry_down(m)
    IN IF m1.failed THEN [m |-> m1, log |-> <<>>, peak |-> Largest({Live(m), Live(m1)})]
       ELSE
       LET v == vertical_pass(m1, new_row, vcoins)
       IN IF v.m.failed
          THEN [m |-> v.m, log |-> v.log, peak |-> Largest({Live(m), Live(m1), Live(v.m)})]
          ELSE
          LET m2 == force_edges(v.m, new_row)
              m3 == retire_row(m2)
              m4 == [m3 EXCEPT !.row = new_row]
          IN [m |-> m4, log |-> v.log,
              peak |-> Largest({Live(m), Live(m1), Live(v.m), Live(m2), Live(m3)})]

\* The call's last statement, generate_bottom_walls: the results the call
\* can have.
ellers_walls(u, bcoins) ==
    IF u.m.failed THEN {u}
    ELSE {[u EXCEPT !.m = g] : g \in generate_bottom_walls(u.m, bcoins)}

\* The results [m, log, peak] the call can have.
ellers(m, vcoins, bcoins) == ellers_walls(ellers_rows(m, vcoins), bcoins)

(***************************************************************************)
(* end                                                                     *)
(***************************************************************************)
RECURSIVE floor_from(_, _)
floor_from(m, k) ==
    IF k >= RowLen(m.row) THEN m
    ELSE floor_from(AddWall(m, m.row[k], Bottom), k + 1)

\* What the closing scan does to the registry for one boundary.
close_union(m, source_id, target_set) ==
    LET source == IF source_id \in DOMAIN m.sets THEN m.sets[source_id] ELSE {}
    IN IF target_set \in DOMAIN m.sets
       THEN [m EXCEPT !.sets[target_set] = @ \cup source]
       ELSE m

\* Variant: the closing scan opens nothing.
close_cell_skip(m, k) == m

\* Variant: the Right wall goes whenever the set ids differ, 0 included.
close_cell_unguarded(m, k) ==
    LET label == m.row[k]
        hasNext == k + 1 < RowLen(m.row)
        next_label == IF hasNext THEN m.row[k + 1] ELSE 0
        set_id == IF hasNext /\ next_label \in DOMAIN m.cells
                  THEN m.cells[next_label].set_id ELSE 0
        differ == label \in DOMAIN m.cells /\ set_id # m.cells[label].set_id
        target_set == IF differ THEN m.cells[label].set_id ELSE 0
        m1 == IF differ THEN RemoveWall(m, label, Right) ELSE m
        m2 == IF hasNext THEN RemoveWall(m1, next_label, Left) ELSE m1
    IN close_union(m2, set_id, target_set)

\* Variant: the Right wall is never removed.
close_cell_keep_right(m, k) ==
    LET hasNext == k + 1 < RowLen(m.row)
        next_label == IF hasNext THEN m.row[k + 1] ELSE 0
        set_id == IF hasNext /\ next_label \in DOMAIN m.cells
                  THEN m.cells[next_label].set_id ELSE 0
        m2 == IF hasNext THEN RemoveWall(m, next_label, Left) ELSE m
    IN close_union(m2, set_id, 0)

\* One iteration of the closing scan, column k.  `union` is initialised to
\* true and never cleared.
close_cell(m, k) ==
    LET label == m.row[k]
        hasNext == k + 1 < RowLen(m.row)
        next_label == IF hasNext THEN m.row[k + 1] ELSE 0
        set_id == IF hasNext /\ next_label \in DOMAIN m.cells
                  THEN m.cells[next_label].set_id ELSE 0
        differ == set_id # 0 /\ label \in DOMAIN m.cells
                  /\ set_id # m.cells[label].set_id
        target_set == IF differ THEN m.cells[label].set_id ELSE 0
        m1 == IF differ THEN RemoveWall(m, label, Right) ELSE m
        union == TRUE
        m2 == IF union /\ hasNext THEN RemoveWall(m1, next_label, Left) ELSE m1
    IN IF union THEN close_union(m2, set_id, target_set) ELSE m1

RECURSIVE close_from(_, _)
close_from(m, k) ==
    IF k >= RowLen(m.row) THEN m
    ELSE close_from(close_cell(m, k), k + 1)

\* What end does after its call of ellers has returned e.
end_close(e) ==
    IF e.m.failed THEN e
    ELSE [e EXCEPT !.m = close_from(floor_from(e.m, 0), 0)]

end(m, vcoins, bcoins) == {end_close(e) : e \in ellers(m, vcoins, bcoins)}

(***************************************************************************)
(* The state machine: the caller constructs an engine and calls ellers and *)
(* end in any order; each call's row is published when it returns.         *)
(***************************************************************************)
\* The number of digits of num in the base: 0 for 0.
RECURSIVE get_number_of_digits(_, _)
get_number_of_digits(num, base) ==
    IF num = 0 THEN 0 ELSE 1 + get_number_of_digits(num \div base, base)

\* print_row's view of the current row: the Cell of every column.
published(m) == [i \in DOMAIN m.row |-> m.cells[m.row[i]]]

\* The engine becomes m.
Becomes(m) ==
    /\ sets' = m.sets
    /\ cells' = m.cells
    /\ width' = m.width
    /\ set_cnt' = m.set_cnt
    /\ label_cnt' = m.label_cnt
    /\ row' = m.row
    /\ iterations' = m.iterations
    /\ failed' = m.failed

\* A public call returns m.
Install(m) ==
    /\ Becomes(m)
    /\ emitted' = IF m.failed THEN emitted ELSE Append(emitted, published(m))

Init ==
    /\ sets = EmptyMap
    /\ cells = EmptyMap
    /\ width = 0
    /\ set_cnt = 1
    /\ label_cnt = 0
    /\ row = EmptyMap
    /\ iterations = 0
    /\ failed = FALSE
    /\ ops = <<>>
    /\ emitted = <<>>
    /\ vlog = <<>>
    /\ peak = 0
    /\ mlog = <<>>

\* The coin sequences for the random() calls made for the columns D.
Coins(D) == [D -> BOOLEAN]

\* The values of `iterations` a caller passes: from none up to the number of
\* rows of the longest run explored.
Iterations == 0 .. (MaxCalls + 1)

New ==
    /\ ops = <<>>
    /\ \E w \in 0 .. MaxWidth, it \in Iterations :
         \E vcoins \in Coins(0 .. (w - 2)) :
           \E bcoins \in Coins(Interior(w)) :
             \E m \in new(w, it, vcoins, bcoins) : Install(m) /\ peak' = Live(m)
    /\ ops' = <<"new">>
    /\ UNCHANGED <<vlog, mlog>>

Callable == ops # <<>> /\ ~failed /\ Len(ops) <= MaxCalls

\* A call's inputs are its coins: a coin for every column's random() in the
\* vertical pass and one for every interior column in the bottom pass.  The
\* results of ellers(m, vcoins, bcoins) over all coins, computed stage by
\* stage (ellers is ellers_walls after ellers_rows).
EllersResults(m) ==
    UNION {ellers_walls(u, bcoins) :
             u \in {ellers_rows(m, vcoins) : vcoins \in Coins(0 .. (m.width - 1))},
             bcoins \in Coins(Interior(m.width))}

\* The results of end(m, vcoins, bcoins) over all coins.
EndResults(m) == {end_close(e) : e \in EllersResults(m)}


Ellers ==
    /\ Callable
    /\ \E e \in EllersResults(Engine) :
         Install(e.m) /\ vlog' = e.log /\ peak' = e.peak
    /\ ops' = Append(ops, "ellers")
    /\ UNCHANGED mlog

End ==
    /\ Callable
    /\ \E e \in EndResults(Engine) :
         Install(e.m) /\ vlog' = e.log /\ peak' = e.peak
    /\ ops' = Append(ops, "end")
    /\ UNCHANGED mlog

Next == New \/ Ellers \/ End

Spec == Init /\ [][Next]_vars

(***************************************************************************)
(* merge_sets on its own: any registry and cell mapping over a few labels  *)
(* and set ids, consistent or not, and one call on it.                     *)
(***************************************************************************)
MergeIds == {1, 2, 3}

\* Labels with a Cell; label MergeLabels is in no Cell mapping.
MergeCells == 0 .. (MergeLabels - 1)

InitMerge ==
    /\ \E f \in [MergeCells -> MergeIds] :
         cells = [l \in MergeCells |->
                    [walls |-> IF l = 0 THEN {Left, Top} ELSE {Top, Bottom},
                     label |-> l, set_id |-> f[l]]]
    /\ sets \in UNION {[D -> SUBSET (0 .. MergeLabels)] : D \in SUBSET MergeIds}
    /\ width = MergeLabels
    /\ set_cnt = 4
    /\ label_cnt = MergeLabels + 1
    /\ row = [i \in MergeCells |-> i]
    /\ iterations = 2
    /\ failed = FALSE
    /\ ops = <<>>
    /\ emitted = <<>>
    /\ vlog = <<>>
    /\ peak = 0
    /\ mlog = <<>>

MergeSets ==
    /\ mlog = <<>>
    /\ \E from \in MergeIds, to \in MergeIds :
         LET m == merge_sets(Engine, from, to)
         IN /\ sets' = m.sets
            /\ cells' = m.cells
            /\ width' = m.width
            /\ set_cnt' = m.set_cnt
            /\ label_cnt' = m.label_cnt
            /\ row' = m.row
            /\ iterations' = m.iterations
            /\ failed' = m.failed
            /\ mlog' = <<[from |-> from, to |-> to, before |-> Engine]>>
    /\ UNCHANGED <<ops, emitted, vlog, peak>>

NextMerge == MergeSets

SpecMerge == InitMerge /\ [][NextMerge]_vars

(***************************************************************************)
(* new in its two passes: the first row after init_vertical_walls, then    *)
(* after generate_bottom_walls, for widths up to ScenarioWidth.  vlog     *)
(* holds the coins of the vertical pass, boundary by boundary.             *)
(***************************************************************************)
FirstRowVertical ==
    /\ ops = <<>>
    /\ \E w \in 1 .. ScenarioWidth, it \in {2} :
         \E vcoins \in Coins(0 .. (w - 2)) :
           /\ Becomes(init_vertical_walls(outer_walls(first_row(blank(w, it))), vcoins))
           /\ vlog' = [k \in 1 .. (w - 1) |-> vcoins[k - 1]]
           /\ peak' = w
    /\ ops' = <<"init_vertical_walls">>
    /\ UNCHANGED <<emitted, mlog>>

FirstRowBottom ==
    /\ ops = <<"init_vertical_walls">>
    /\ \E bcoins \in Coins(Interior(width)) :
         \E m \in generate_bottom_walls(Engine, bcoins) : Install(m)
    /\ ops' = Append(ops, "generate_bottom_walls")
    /\ UNCHANGED <<vlog, peak, mlog>>

NextFirstRow == FirstRowVertical \/ FirstRowBottom

SpecFirstRow == Init /\ [][NextFirstRow]_vars

(***************************************************************************)
(* Vocabulary of the properties                                            *)
(***************************************************************************)
LastOp == ops[Len(ops)]

\* The call named op has just returned.
After(op) == ops # <<>> /\ ~failed /\ LastOp = op

\* Some public call has returned.
Completed == ops # <<>> /\ ~failed

\* No closing call has been made: new followed by ellers calls only.
Open == \A k \in 1 .. Len(ops) : ops[k] # "end"

\* new, any number of ellers calls, then one end call, which has returned.
Closed ==
    /\ Len(ops) >= 2
    /\ ~failed
    /\ ops[Len(ops)] = "end"
    /\ \A k \in 2 .. (Len(ops) - 1) : ops[k] = "ellers"

\* The Cell of column i of the current row.
CellAt(i) == cells[row[i]]

RowLabels == {row[i] : i \in DOMAIN row}

\* The set ids held by the cells of the current row.
HeldSets == {CellAt(i).set_id : i \in DOMAIN row}

(***************************************************************************)
(* The maze as a graph: the vertices are the cells of the published rows,  *)
(* <<r, i>> for column i of the r-th published row; the edges are the open *)
(* passages.                                                               *)
(***************************************************************************)
Vertices == {<<r, i>> : r \in 1 .. Len(emitted), i \in 0 .. (width - 1)}

\* No Right wall on column i and no Left wall on column i+1 of row r.
HOpen(r, i) ==
    /\ i + 1 < width
    /\ Right \notin emitted[r][i].walls
    /\ Left \notin emitted[r][i + 1].walls

\* No Bottom wall on column i of row r, and a row below it.
VOpen(r, i) ==
    /\ r < Len(emitted)
    /\ Bottom \notin emitted[r][i].walls

Passages ==
    {{v, <<v[1], v[2] + 1>>} : v \in {u \in Vertices : HOpen(u[1], u[2])}}
      \cup {{v, <<v[1] + 1, v[2]>>} : v \in {u \in Vertices : VOpen(u[1], u[2])}}

\* The vertices reachable from S through the edges E.
RECURSIVE Reach(_, _)
Reach(S, E) ==
    LET T == S \cup UNION {e \in E : e \cap S # {}}
    IN IF T = S THEN S ELSE Reach(T, E)

\* The number of connected components of the graph (V, E).
RECURSIVE Components(_, _)
Components(V, E) ==
    IF V = {} THEN 0
    ELSE LET v == CHOOSE x \in V : TRUE
         IN 1 + Components(V \ Reach({v}, E), E)

\* A graph is a forest exactly when edges + components = vertices.
Acyclic(V, E) == Cardinality(E) + Components(V, E) = Cardinality(V)

Connected(V, E) == V = {} \/ Reach({CHOOSE x \in V : TRUE}, E) = V

(***************************************************************************)
(* Properties                                                              *)
(***************************************************************************)

\* C1: after new, any number of ellers calls and one end call, the graph of
\* the published cells and their open passages contains no cycle.
C1_NoCycle == Closed => Acyclic(Vertices, Passages)

\* C2: after new, any number of ellers calls and one end call, every two
\* published cells are joined by a path of open passages.
C2_Connected == Closed => Connected(Vertices, Passages)

C2_Witness ==
    /\ Closed
    /\ width >= 3
    /\ Len(emitted) >= 3
    /\ \E r \in 1 .. (Len(emitted) - 1) : \E i \in DOMAIN emitted[r] :
          Bottom \in emitted[r][i].walls
    /\ \E i \in 0 .. (width - 2) : ~HOpen(Len(emitted), i)
    /\ Connected(Vertices, Passages)

\* C3: after the closing call all cells of the final row carry the same set
\* id, and that set's member list contains every label of the final row.
C3_OneSet ==
    Closed =>
      /\ \A i, j \in DOMAIN row : CellAt(i).set_id = CellAt(j).set_id
      /\ \A i \in DOMAIN row :
            /\ CellAt(i).set_id \in DOMAIN sets
            /\ RowLabels \subseteq sets[CellAt(i).set_id]

\* C4: after new and after every ellers call, every set id held by a cell of
\* the current row has a cell of the current row without a Bottom wall, both
\* among the cells that hold the id and among the members the registry lists.
C4_DownPassage ==
    (Open /\ Completed) =>
      \A s \in HeldSets :
        /\ \E i \in DOMAIN row :
              CellAt(i).set_id = s /\ Bottom \notin CellAt(i).walls
        /\ s \in DOMAIN sets
        /\ \E l \in sets[s] \cap RowLabels : Bottom \notin cells[l].walls

C4_Witness ==
    /\ Open
    /\ After("ellers")
    /\ \E i, j \in DOMAIN row :
          /\ CellAt(i).set_id = CellAt(j).set_id
          /\ Bottom \in CellAt(i).walls
          /\ Bottom \notin CellAt(j).walls

\* C5: in the vertical pass of ellers, a boundary whose two cells have the
\* same set when it is decided gets the Right wall on the left cell and the
\* Left wall on the right cell, and no merge is performed for it.
C5_AntiCycle ==
    After("ellers") =>
      \A k \in 1 .. Len(vlog) :
        vlog[k].same =>
          /\ Right \in CellAt(vlog[k].col).walls
          /\ Left \in CellAt(vlog[k].col + 1).walls
          /\ ~vlog[k].merged

C5_Witness ==
    /\ After("ellers")
    /\ \E k \in 1 .. Len(vlog) : vlog[k].same
    /\ \E k \in 1 .. Len(vlog) : vlog[k].merged

\* C6: in every published row the leftmost cell has a Left wall and the
\* rightmost cell has a Right wall.
C6_Boundary ==
    \A r \in 1 .. Len(emitted) :
      /\ Left \in emitted[r][0].walls
      /\ Right \in emitted[r][width - 1].walls

C6_Witness ==
    /\ After("end")
    /\ width >= 2
    /\ Len(emitted) >= 3
    /\ ops[2] = "ellers"

\* C7: after new and after every ellers or end call the current row, and
\* every published row, has exactly width cells.
C7_Width ==
    Completed =>
      /\ DOMAIN row = 0 .. (width - 1)
      /\ RowLen(row) = width
      /\ \A r \in 1 .. Len(emitted) : DOMAIN emitted[r] = 0 .. (width - 1)
      /\ Len(emitted) = Len(ops)

C7_Witness ==
    /\ Completed
    /\ Len(ops) >= 3
    /\ width >= 2
    /\ \E k \in 1 .. Len(ops) : ops[k] = "ellers"
    /\ \E k \in 1 .. Len(ops) : ops[k] = "end"

\* C8: after new and after every ellers call, the union of the member lists
\* of all sets equals the set of labels of the current row.
C8_Pruned ==
    (Open /\ Completed) => UNION {sets[s] : s \in DOMAIN sets} = RowLabels

\* C9: after every completed call, the label of every cell of the current
\* row is a member of exactly one set of the registry.
C9_ExactlyOne ==
    Completed =>
      \A l \in RowLabels : Cardinality({s \in DOMAIN sets : l \in sets[s]}) = 1

\* C10: merge_sets(from, to) with from # to and both sets present: the cells
\* whose labels were members of from have set id to, to's member list is the
\* union of the two, from is gone, and every other set, every other cell's
\* set id, every cell's walls and label and the rest of the engine are as
\* before.
C10_Merge ==
    \A k \in 1 .. Len(mlog) :
      LET from == mlog[k].from
          to == mlog[k].to
          b == mlog[k].before
      IN (from # to /\ from \in DOMAIN b.sets /\ to \in DOMAIN b.sets) =>
           /\ DOMAIN cells = DOMAIN b.cells
           /\ \A l \in DOMAIN cells :
                 /\ cells[l].walls = b.cells[l].walls
                 /\ cells[l].label = b.cells[l].label
                 /\ cells[l].set_id =
                       IF l \in b.sets[from] THEN to ELSE b.cells[l].set_id
           /\ DOMAIN sets = DOMAIN b.sets \ {from}
           /\ sets[to] = b.sets[from] \cup b.sets[to]
           /\ \A s \in DOMAIN sets \ {to} : sets[s] = b.sets[s]
           /\ <<width, set_cnt, label_cnt, row, iterations, failed>> =
                 <<b.width, b.set_cnt, b.label_cnt, b.row, b.iterations, b.failed>>

C10_Witness ==
    /\ mlog # <<>>
    /\ LET from == mlog[1].from
           to == mlog[1].to
           b == mlog[1].before
       IN /\ from # to
          /\ from \in DOMAIN b.sets
          /\ to \in DOMAIN b.sets
          /\ b.sets[from] \cap DOMAIN b.cells # {}
          /\ b.sets[to] # {}
          /\ ~(b.sets[from] \subseteq b.sets[to])
          /\ \E l \in b.sets[from] \cap DOMAIN b.cells : b.cells[l].set_id # to
          /\ \E s \in DOMAIN sets \ {to} : sets[s] # {}

Ended == \E k \in 1 .. Len(ops) : ops[k] = "end"

\* C12: once end has been called, a further ellers or end call publishes no
\* row and leaves the row, the cells, the sets and the counters unchanged.
C12_Rejected ==
    [][Ended => UNCHANGED <<sets, cells, width, set_cnt, label_cnt, row, emitted>>]_vars

\* C13: a request with width < 1 or iterations < 2 fails before anything is
\* generated: no cell, no set, no row, and no row is published.
C13_InvalidArgument ==
    (ops # <<>> /\ (width < 1 \/ iterations < 2)) =>
      /\ failed
      /\ cells = EmptyMap
      /\ sets = EmptyMap
      /\ row = EmptyMap
      /\ emitted = <<>>

\* The first row of width 5 after the vertical pass with the coins
\* false, true, false, true.
Scenario5 ==
    /\ ops = <<"init_vertical_walls">>
    /\ width = 5
    /\ vlog = <<FALSE, TRUE, FALSE, TRUE>>

\* C14: in that scenario the non-empty member lists of the registry are
\* exactly {0,1}, {2,3}, {4}, and the cells' set ids partition the row the
\* same way.
C14_ScenarioSets ==
    Scenario5 =>
      /\ {sets[s] : s \in DOMAIN sets} \ {{}} = {{0, 1}, {2, 3}, {4}}
      /\ \A a, b \in DOMAIN cells :
            (cells[a].set_id = cells[b].set_id) <=>
               (\E B \in {{0, 1}, {2, 3}, {4}} : a \in B /\ b \in B)

\* C15 as stated: cell 0 without Right; cell 1 with Left, without Right;
\* cell 2 with Right; cell 3 with Left, without Right; cell 4 with Right.
C15_ScenarioWallsStated ==
    Scenario5 =>
      /\ Right \notin cells[0].walls
      /\ Left \in cells[1].walls /\ Right \notin cells[1].walls
      /\ Right \in cells[2].walls
      /\ Left \in cells[3].walls /\ Right \notin cells[3].walls
      /\ Right \in cells[4].walls

\* C15 amended: cell 0 without Right; cell 1 without Left, with Right;
\* cell 2 with Left, without Right; cell 3 without Left, with Right; cell 4
\* with Left and Right.
C15_ScenarioWalls ==
    Scenario5 =>
      /\ Right \notin cells[0].walls
      /\ Left \notin cells[1].walls /\ Right \in cells[1].walls
      /\ Left \in cells[2].walls /\ Right \notin cells[2].walls
      /\ Left \notin cells[3].walls /\ Right \in cells[3].walls
      /\ Left \in cells[4].walls /\ Right \in cells[4].walls

C15_Witness == Scenario5 /\ DOMAIN cells = 0 .. 4

\* The closing scan of end, applied to what ellers and the floor loop left.
ClosingScanIdle(e) ==
    LET floored == floor_from(e.m, 0)
        closed == close_from(floored, 0)
    IN /\ closed.sets = floored.sets
       /\ \A l \in DOMAIN floored.cells :
            /\ closed.cells[l].walls = floored.cells[l].walls
            /\ closed.cells[l].set_id = floored.cells[l].set_id

\* C16: at width 1, new leaves one cell with Left, Right and Top; an end
\* call returns with the cell's Left, Right and Bottom walls in place, and
\* its closing scan changes no wall, no member list and no set id.
C16_WidthOne ==
    (Completed /\ width = 1) =>
      /\ After("new") => /\ RowLen(row) = 1
                         /\ {Left, Right, Top} \subseteq CellAt(0).walls
      /\ After("end") => {Left, Right, Bottom} \subseteq CellAt(0).walls
      /\ \A e \in EllersResults(Engine) : ~e.m.failed /\ ClosingScanIdle(e)

C16_Witness == After("end") /\ width = 1 /\ Len(ops) = 2

\* C17 as stated: after end on width >= 2 every adjacent pair of the final
\* row has neither the left cell's Right wall nor the right cell's Left one.
C17_AllOpenStated ==
    (After("end") /\ width >= 2) =>
      \A i \in 0 .. (width - 2) :
        Right \notin CellAt(i).walls /\ Left \notin CellAt(i + 1).walls

\* C17 amended: after end on width >= 2 every adjacent pair of the final
\* row whose cells hold different set ids has neither the left cell's Right
\* wall nor the right cell's Left wall.
C17_DifferentOpen ==
    (After("end") /\ width >= 2) =>
      \A i \in 0 .. (width - 2) :
        CellAt(i).set_id # CellAt(i + 1).set_id =>
          Right \notin CellAt(i).walls /\ Left \notin CellAt(i + 1).walls

C17_Witness ==
    /\ After("end") /\ width >= 2
    /\ \E i \in 0 .. (width - 2) : CellAt(i).set_id # CellAt(i + 1).set_id

\* C18: every cell of the row built by new has a Top wall.
C18_TopWall ==
    emitted # <<>> => \A i \in DOMAIN emitted[1] : Top \in emitted[1][i].walls

C18_Witness == Len(emitted) >= 2 /\ width >= 2

\* C19: after new the row is 0..width-1 in order, the while loop put cell i
\* alone into the new set i+1, the label counter is width and the set counter
\* width + 1.
C19_FreshRow ==
    After("new") =>
      /\ row = [i \in 0 .. (width - 1) |-> i]
      /\ label_cnt = width
      /\ set_cnt = width + 1
      /\ DOMAIN sets = 1 .. width
      /\ DOMAIN cells = 0 .. (width - 1)
      /\ LET f == first_row(blank(width, iterations))
         IN /\ f.sets = [s \in 1 .. width |-> {s - 1}]
            /\ \A i \in 0 .. (width - 1) : f.cells[i].set_id = i + 1

C19_Witness ==
    /\ After("new") /\ width >= 2
    /\ \E i \in 0 .. (width - 2) : CellAt(i).set_id = CellAt(i + 1).set_id

Members(m, s) == IF s \in DOMAIN m.sets THEN m.sets[s] ELSE {}

\* What the carry-down m1 of the next ellers call has done with column i.
CarriedRight(m1, i) ==
    LET above == CellAt(i)
        lbl == carried_row(Engine)[i]
        cell == m1.cells[lbl]
    IN /\ Top \in cell.walls <=> Bottom \in above.walls
       /\ Bottom \in above.walls =>
            /\ cell.set_id >= set_cnt
            /\ cell.set_id \notin DOMAIN sets
            /\ Members(m1, cell.set_id) = {lbl}
            /\ lbl \notin Members(m1, above.set_id)
       /\ Bottom \notin above.walls =>
            /\ cell.set_id = above.set_id
            /\ lbl \in Members(m1, above.set_id)

\* C21: in the carry-down of ellers, for every column, the new cell has a
\* Top wall exactly when its predecessor had a Bottom wall; under a Bottom
\* wall it is the only member of a set id never allocated before and not a
\* member of the inherited set; otherwise it is a member of the
\* predecessor's set.
C21_CarryDown ==
    Completed =>
      LET m1 == carry_down(Engine)
      IN ~m1.failed /\ \A i \in DOMAIN row : CarriedRight(m1, i)

C21_Witness ==
    /\ After("ellers")
    /\ \E i, j \in DOMAIN row : /\ Bottom \in CellAt(i).walls
                                /\ Bottom \notin CellAt(j).walls
    /\ carry_down(Engine).set_cnt > set_cnt

\* C22: after every completed call, every cell of the current row is a
\* member of the registry set its set id names.
C22_MappingsAgree ==
    Completed => \A i \in DOMAIN row : row[i] \in Members(Engine, CellAt(i).set_id)

\* C23: after new and after every ellers call, two cells of the current row
\* hold the same set id exactly when a path of open passages through the
\* published rows joins them.
C23_SetsAreReachability ==
    (Completed /\ Open) =>
      LET E == Passages
          last == Len(emitted)
      IN \A i \in DOMAIN row :
           LET R == Reach({<<last, i>>}, E)
           IN \A j \in DOMAIN row :
                (CellAt(i).set_id = CellAt(j).set_id) <=> (<<last, j>> \in R)

\* The calls so far are new, then ellers calls, then at most one end, last.
InOrder == \A k \in 1 .. (Len(ops) - 1) : ops[k] # "end"

\* C24: for width >= 1, no sequence new, ellers..., end meets a failed
\* lookup: the cloned predecessor, the right neighbour read before a merge
\* and every member label the bottom-wall pass iterates are in the Cell
\* mapping.
C24_NoFailedLookup == (ops # <<>> /\ width >= 1 /\ InOrder) => ~failed

C24_Witness ==
    /\ Closed /\ width >= 3 /\ Len(ops) >= 3
    /\ \E s \in DOMAIN sets : sets[s] \ DOMAIN cells # {}


C23_Witness ==
    /\ After("ellers") /\ Len(emitted) >= 3
    /\ \E i, j \in DOMAIN row :
         /\ i + 1 < j
         /\ CellAt(i).set_id = CellAt(j).set_id
         /\ CellAt(i).set_id # CellAt(i + 1).set_id


\* C25: after every completed call, for every adjacent pair of the current
\* row, the left cell has a Right wall exactly when the right cell has a
\* Left wall.
C25_WallsAgree ==
    Completed =>
      \A i \in DOMAIN row :
        (i + 1) \in DOMAIN row =>
          (Right \in CellAt(i).walls <=> Left \in CellAt(i + 1).walls)


\* C26: in every row published by new or ellers the leftmost and the
\* rightmost cell have no Bottom wall; for width <= 2 no cell of such a row
\* has one, and as long as no end call was made the set counter stays at
\* width + 1.
C26_EdgesOpenBelow ==
    Completed =>
      /\ \A r \in 1 .. Len(emitted) :
           ops[r] # "end" =>
             /\ Bottom \notin emitted[r][0].walls
             /\ Bottom \notin emitted[r][width - 1].walls
             /\ width <= 2 => \A i \in DOMAIN emitted[r] : Bottom \notin emitted[r][i].walls
      /\ (width <= 2 /\ Open) => set_cnt = width + 1

C26_Witness ==
    /\ After("ellers") /\ Len(emitted) >= 3
    /\ width >= 3
    /\ \E i \in DOMAIN row : Bottom \in CellAt(i).walls


\* The caller has followed the construction contract so far: new(width,
\* iterations) with width >= 1 and iterations >= 2, at most iterations - 2
\* ellers calls, then end, after exactly iterations - 2 of them.
FollowsContract ==
    /\ Completed /\ InOrder
    /\ width >= 1 /\ iterations >= 2
    /\ IF LastOp = "end" THEN Len(ops) = iterations ELSE Len(ops) < iterations

\* C27: under the construction contract every set id of a published row is
\* between 1 and width * iterations, and has no more decimal digits than
\* width * iterations, so print_row's padding width minus the id's digit
\* count is never negative.
C27_PaddingFits ==
    FollowsContract =>
      \A r \in 1 .. Len(emitted) : \A i \in DOMAIN emitted[r] :
        LET id == emitted[r][i].set_id
            number_of_digits == get_number_of_digits(width * iterations, 10)
            digit_count == get_number_of_digits(id, 10)
        IN /\ 1 <= id /\ id <= width * iterations
           /\ number_of_digits - digit_count >= 0

C27_Witness ==
    /\ FollowsContract /\ LastOp = "end" /\ Len(ops) >= 3
    /\ \E i \in DOMAIN row : CellAt(i).set_id > width

====
